---- MODULE Spec2Model ----
(***************************************************************************)
(* Model of SnakeAI (src/snake.py): the greedy navigator SimpleSnakeAI,    *)
(* the Snake and Food objects and the tick loop of main(), plus the        *)
(* ZigzagNavigator and the CycleNavigator of the specification (sections   *)
(* 4.1 and 4.2).                                                           *)
(*                                                                         *)
(* A cell is a pair <<x, y>>; a body is a sequence of cells, head first.   *)
(* One Tick action is one pass of main's while loop (lines 189-223).       *)
(***************************************************************************)
EXTENDS Integers, Sequences, FiniteSets, TLC

\* --- Configuration (src/snake.py:6-7).  The program runs on a 20 x 20 grid;
\* the model is checked on a small grid of the same shape.
GRID_WIDTH == 3
GRID_HEIGHT == 3

\* Longest body drawn as an input of get_next_move in AISpec.
MaxBody == 5

\* Largest width and height of the grids the zigzag traversal is run on.
MaxDim == 5

\* --- Directions (src/snake.py:22-26)
UP == <<0, -1>>
DOWN == <<0, 1>>
LEFT == <<-1, 0>>
RIGHT == <<1, 0>>
DIRECTIONS == <<UP, DOWN, LEFT, RIGHT>>

VARIABLES
    body,            \* snake.body: sequence of cells, head first
    direction,       \* snake.direction
    length,          \* snake.length
    food,            \* food.position
    score,           \* main's score
    next_direction,  \* main's next_direction: the navigator's last answer
    pc,              \* where main is: "food_ctor", "main_place", "tick",
                     \* "hit_wall", "hit_self", "won", "placing" (the retry
                     \* loop of randomize_position with no free cell),
                     \* "ai", "decided" for the navigator run on its own,
                     \* and "zigzag" for the zigzag traversal
    placed,          \* which call placed the food in the last step:
                     \* "none", "ctor", "main" or "eat"
    last,            \* the snake, food and score as they were before the last tick
    probe,           \* the last call of is_safe_move on its own: its pos and its answer
    zw, zh,          \* zigzag: grid width and height
    zpos,            \* zigzag: current cell
    zvisited,        \* zigzag: cells left so far, in order
    cycle_map        \* CycleNavigator's CycleMap: cell -> successor (<<>> before build)

gvars == <<body, direction, length, food, score, next_direction, pc, placed, last, probe>>
zvars == <<zw, zh, zpos, zvisited, cycle_map>>
vars == <<body, direction, length, food, score, next_direction, pc, placed, last, probe,
          zw, zh, zpos, zvisited, cycle_map>>

Range(s) == {s[i] : i \in 1..Len(s)}

Abs(n) == IF n < 0 THEN -n ELSE n

Grid == (0..(GRID_WIDTH - 1)) \X (0..(GRID_HEIGHT - 1))

\* (head[0] + direction[0], head[1] + direction[1])
Step(pos, d) == <<pos[1] + d[1], pos[2] + d[2]>>

\* --- SimpleSnakeAI ---------------------------------------------------------

\* is_safe_move without the test of lines 98-100 (pos in snake.body).
is_safe_move_bounds_only(pos, snake_body) ==
    ~(pos[1] < 0 \/ pos[1] >= GRID_WIDTH \/ pos[2] < 0 \/ pos[2] >= GRID_HEIGHT)

\* is_safe_move that takes the tail cell, about to be vacated, as free.
is_safe_move_tail_free(pos, snake_body) ==
    /\ ~(pos[1] < 0 \/ pos[1] >= GRID_WIDTH \/ pos[2] < 0 \/ pos[2] >= GRID_HEIGHT)
    /\ pos \notin Range(SubSeq(snake_body, 1, Len(snake_body) - 1))

\* is_safe_move(pos, snake): within bounds and not on snake.body
is_safe_move(pos, snake_body) ==
    IF pos[1] < 0 \/ pos[1] >= GRID_WIDTH \/ pos[2] < 0 \/ pos[2] >= GRID_HEIGHT
    THEN FALSE
    ELSE IF pos \in Range(snake_body)
    THEN FALSE
    ELSE TRUE

\* preferred_directions with abs(dx) > abs(dy) in place of >= (line 45).
preferred_directions_strict(head, food_pos) ==
    LET dx == food_pos[1] - head[1]
        dy == food_pos[2] - head[2]
        horizontal == IF dx > 0 THEN <<RIGHT>> ELSE IF dx < 0 THEN <<LEFT>> ELSE <<>>
        vertical == IF dy > 0 THEN <<DOWN>> ELSE IF dy < 0 THEN <<UP>> ELSE <<>>
    IN  IF Abs(dx) > Abs(dy) THEN horizontal \o vertical
                             ELSE vertical \o horizontal

\* The list preferred_directions built by get_next_move (lines 38-68).
preferred_directions(head, food_pos) ==
    LET dx == food_pos[1] - head[1]
        dy == food_pos[2] - head[2]
        horizontal == IF dx > 0 THEN <<RIGHT>> ELSE IF dx < 0 THEN <<LEFT>> ELSE <<>>
        vertical == IF dy > 0 THEN <<DOWN>> ELSE IF dy < 0 THEN <<UP>> ELSE <<>>
    IN  IF Abs(dx) >= Abs(dy) THEN horizontal \o vertical
                              ELSE vertical \o horizontal

\* get_next_move without the scan over DIRECTIONS (lines 77-80).
get_next_move_no_scan(snake_body, snake_direction, food_pos) ==
    LET head == snake_body[1]
        Safe(d) == is_safe_move(Step(head, d), snake_body)
        pref == SelectSeq(preferred_directions(head, food_pos), Safe)
    IN  IF pref # <<>> THEN pref[1]
        ELSE IF Safe(snake_direction) THEN snake_direction
        ELSE RIGHT

\* get_next_move whose last resort returns snake.direction, not RIGHT (line 88).
get_next_move_keep_direction(snake_body, snake_direction, food_pos) ==
    LET head == snake_body[1]
        Safe(d) == is_safe_move(Step(head, d), snake_body)
        pref == SelectSeq(preferred_directions(head, food_pos), Safe)
        any == SelectSeq(DIRECTIONS, Safe)
    IN  IF pref # <<>> THEN pref[1]
        ELSE IF any # <<>> THEN any[1]
        ELSE snake_direction

\* get_next_move without the preferred directions (lines 38-74): the first safe
\* of UP, DOWN, LEFT, RIGHT, wherever the food is.
get_next_move_ignore_food(snake_body, snake_direction, food_pos) ==
    LET head == snake_body[1]
        Safe(d) == is_safe_move(Step(head, d), snake_body)
        any == SelectSeq(DIRECTIONS, Safe)
    IN  IF any # <<>> THEN any[1]
        ELSE IF Safe(snake_direction) THEN snake_direction
        ELSE RIGHT

\* get_next_move(snake, food_pos)
get_next_move(snake_body, snake_direction, food_pos) ==
    LET head == snake_body[1]
        Safe(d) == is_safe_move(Step(head, d), snake_body)
        pref == SelectSeq(preferred_directions(head, food_pos), Safe)
        any == SelectSeq(DIRECTIONS, Safe)
    IN  IF pref # <<>> THEN pref[1]
        ELSE IF any # <<>> THEN any[1]
        ELSE IF Safe(snake_direction) THEN snake_direction
        ELSE RIGHT

\* --- Snake -------------------------------------------------------------------

\* Snake.__init__
InitBody == << <<GRID_WIDTH \div 2, GRID_HEIGHT \div 2>> >>

\* turn without the reversal guard of lines 117-118.
turn_always(snake_direction, snake_length, point) == point

\* Snake.turn(point): the new snake.direction
turn(snake_direction, snake_length, point) ==
    IF snake_length > 1 /\ <<point[1] * (-1), point[2] * (-1)>> = snake_direction
    THEN snake_direction
    ELSE point

\* move with len(self.body) >= self.length in place of > (line 127).
move_pop_ge(snake_body, snake_direction, snake_length) ==
    LET new_head == Step(snake_body[1], snake_direction)
        inserted == <<new_head>> \o snake_body
    IN  IF Len(inserted) >= snake_length
        THEN SubSeq(inserted, 1, Len(inserted) - 1)
        ELSE inserted

\* move that pops the front, the cell just inserted, in place of the tail (line 128).
move_pop_front(snake_body, snake_direction, snake_length) ==
    LET new_head == Step(snake_body[1], snake_direction)
        inserted == <<new_head>> \o snake_body
    IN  IF Len(inserted) > snake_length
        THEN Tail(inserted)
        ELSE inserted

\* move without the pop of lines 127-128.
move_no_pop(snake_body, snake_direction, snake_length) ==
    <<Step(snake_body[1], snake_direction)>> \o snake_body

\* Snake.move(): the new snake.body
move(snake_body, snake_direction, snake_length) ==
    LET new_head == Step(snake_body[1], snake_direction)
        inserted == <<new_head>> \o snake_body
    IN  IF Len(inserted) > snake_length
        THEN SubSeq(inserted, 1, Len(inserted) - 1)
        ELSE inserted

\* grow that adds 2 (line 132).
grow_by_two(snake_length) == snake_length + 2

\* Snake.grow(): the new snake.length
grow(snake_length) == snake_length + 1

\* --- Food --------------------------------------------------------------------

\* randomize_position without the retry of lines 153-154.
randomize_position_any(snake_body) == Grid

\* Food.randomize_position(snake_body): the positions the retry loop can end on
randomize_position(snake_body) == Grid \ Range(snake_body)

\* --- main --------------------------------------------------------------------

\* No call of is_safe_move on its own yet.
NoProbe == [pos |-> <<0, 0>>, safe |-> FALSE]

Snapshot(t) ==
    [ticked |-> t, body |-> body, direction |-> direction, length |-> length,
     food |-> food, score |-> score]

Init ==
    /\ body = InitBody
    /\ direction = RIGHT
    /\ length = 1
    /\ food = <<0, 0>>
    /\ score = 0
    /\ next_direction = RIGHT
    /\ pc = "food_ctor"
    /\ placed = "none"
    /\ last = Snapshot(FALSE)
    /\ probe = NoProbe
    /\ zw = 1 /\ zh = 1 /\ zpos = <<0, 0>> /\ zvisited = <<>> /\ cycle_map = <<>>

\* Food.__init__ (line 147): randomize_position() with the default, empty body
FoodCtor ==
    /\ pc = "food_ctor"
    /\ \E p \in randomize_position(<<>>) : food' = p
    /\ placed' = "ctor"
    /\ pc' = "main_place"
    /\ UNCHANGED <<body, direction, length, score, next_direction, last, probe>>
    /\ UNCHANGED zvars

\* main, line 177: food.randomize_position(snake.body)
MainPlace ==
    /\ pc = "main_place"
    /\ IF randomize_position(body) = {}
       THEN pc' = "placing" /\ placed' = "none" /\ UNCHANGED food
       ELSE /\ \E p \in randomize_position(body) : food' = p
            /\ placed' = "main"
            /\ pc' = "tick"
    /\ UNCHANGED <<body, direction, length, score, next_direction, last, probe>>
    /\ UNCHANGED zvars

\* The wall test with > in place of >= (lines 197-198).
HitWall_off_by_one(head) ==
    head[1] < 0 \/ head[1] > GRID_WIDTH \/ head[2] < 0 \/ head[2] > GRID_HEIGHT

\* main, lines 197-198: the wall collision test
HitWall(head) ==
    head[1] < 0 \/ head[1] >= GRID_WIDTH \/ head[2] < 0 \/ head[2] >= GRID_HEIGHT

\* main, line 205: head in snake.body[1:]
HitSelf(snake_body) == snake_body[1] \in Range(Tail(snake_body))

\* main, lines 189-223: one pass of the while loop
Tick ==
    /\ pc = "tick"
    /\ LET nd == get_next_move(body, direction, food)
           d2 == turn(direction, length, nd)
           b2 == move(body, d2, length)
           head == b2[1]
       IN  /\ next_direction' = nd
           /\ direction' = d2
           /\ body' = b2
           /\ last' = Snapshot(TRUE)
           /\ IF HitWall(head)
              THEN pc' = "hit_wall" /\ placed' = "none"
                   /\ UNCHANGED <<length, score, food>>
              ELSE IF HitSelf(b2)
              THEN pc' = "hit_self" /\ placed' = "none"
                   /\ UNCHANGED <<length, score, food>>
              ELSE IF head = food
              THEN /\ length' = grow(length)
                   /\ score' = score + 1
                   /\ IF randomize_position(b2) = {}
                      THEN pc' = "placing" /\ placed' = "none" /\ UNCHANGED food
                      ELSE /\ \E p \in randomize_position(b2) : food' = p
                           /\ placed' = "eat"
                           /\ pc' = IF length' = GRID_WIDTH * GRID_HEIGHT
                                    THEN "won" ELSE "tick"
              ELSE pc' = "tick" /\ placed' = "none"
                   /\ UNCHANGED <<length, score, food>>
    /\ UNCHANGED <<probe, zvars>>

Next == FoodCtor \/ MainPlace \/ Tick

Spec == Init /\ [][Next]_vars

\* main's loop is while True, paced by clock.tick: a tick that can run does run,
\* and the two food placements before the loop end under fair random choice.
FairSpec == Spec /\ WF_vars(FoodCtor) /\ WF_vars(MainPlace) /\ WF_vars(Tick)

\* --- The navigator on its own ------------------------------------------------
\* get_next_move is a pure function of (snake.body, snake.direction, food_pos).
\* AISpec draws these from every snake the board can hold up to MaxBody cells:
\* a self-avoiding path of adjacent cells whose direction is the one of its
\* last move, with the food on a free cell.

Neighbours(c) == {Step(c, DIRECTIONS[i]) : i \in 1..4} \cap Grid

RECURSIVE SnakesOfLen(_)
SnakesOfLen(n) ==
    IF n = 1 THEN {<<c>> : c \in Grid}
    ELSE UNION {{Append(s, c) : c \in Neighbours(s[Len(s)]) \ Range(s)} :
                s \in SnakesOfLen(n - 1)}

Snakes == UNION {SnakesOfLen(n) : n \in 1..MaxBody}

AIInit ==
    /\ body \in Snakes
    /\ direction \in IF Len(body) = 1 THEN Range(DIRECTIONS)
                     ELSE {<<body[1][1] - body[2][1], body[1][2] - body[2][2]>>}
    /\ length \in {Len(body), Len(body) + 1}
    /\ food \in Grid \ Range(body)
    /\ score = length - 1
    /\ next_direction = RIGHT
    /\ pc = "ai"
    /\ placed = "none"
    /\ last = Snapshot(FALSE)
    /\ probe = NoProbe
    /\ zw = 1 /\ zh = 1 /\ zpos = <<0, 0>> /\ zvisited = <<>> /\ cycle_map = <<>>

\* main, line 191: next_direction = ai.get_next_move(snake, food.position)
AIDecide ==
    /\ pc = "ai"
    /\ next_direction' = get_next_move(body, direction, food)
    /\ pc' = "decided"
    /\ UNCHANGED <<body, direction, length, food, score, placed, last, probe>>
    /\ UNCHANGED zvars

\* The positions is_safe_move is asked about: the grid and the ring around it.
ProbeCells == ((-1)..GRID_WIDTH) \X ((-1)..GRID_HEIGHT)

\* ai.is_safe_move(pos, snake) on its own (lines 90-102)
AIProbe ==
    /\ pc = "ai"
    /\ \E pos \in ProbeCells :
           probe' = [pos |-> pos, safe |-> is_safe_move(pos, body)]
    /\ pc' = "probed"
    /\ UNCHANGED <<body, direction, length, food, score, next_direction, placed, last>>
    /\ UNCHANGED zvars

\* snake.turn(point) on its own (lines 115-120): it assigns self.direction only
AITurn ==
    /\ pc = "ai"
    /\ \E point \in Range(DIRECTIONS) :
           /\ direction' = turn(direction, length, point)
           /\ next_direction' = point
    /\ last' = Snapshot(FALSE)
    /\ pc' = "turned"
    /\ UNCHANGED <<body, length, food, score, placed, probe>>
    /\ UNCHANGED zvars

AINext == AIDecide \/ AIProbe \/ AITurn

AISpec == AIInit /\ [][AINext]_vars

\* --- ZigzagNavigator (specification, section 4.1) ----------------------------

\* next that ignores the row parity: every row is walked to the right.
zigzag_next_no_parity(head, width, height) ==
    LET x == head[1]
        y == head[2]
        drop == IF y < height - 1 THEN <<x, y + 1>> ELSE <<0, 0>>
    IN  IF x < width - 1 THEN <<x + 1, y>> ELSE drop

\* next(head, width, height): on an even row move right until the last column,
\* on an odd row move left until column 0, then drop to the next row; at the
\* final row's end wrap to (0,0).
zigzag_next(head, width, height) ==
    LET x == head[1]
        y == head[2]
        drop == IF y < height - 1 THEN <<x, y + 1>> ELSE <<0, 0>>
    IN  IF y % 2 = 0
        THEN IF x < width - 1 THEN <<x + 1, y>> ELSE drop
        ELSE IF x > 0 THEN <<x - 1, y>> ELSE drop

ZigInit ==
    /\ zw \in 1..MaxDim
    /\ zh \in 1..MaxDim
    /\ zpos = <<0, 0>>
    /\ zvisited = <<>>
    /\ cycle_map = <<>>
    /\ body = InitBody
    /\ direction = RIGHT
    /\ length = 1
    /\ food = <<0, 0>>
    /\ score = 0
    /\ next_direction = RIGHT
    /\ pc = "zigzag"
    /\ placed = "none"
    /\ last = Snapshot(FALSE)
    /\ probe = NoProbe

\* One iteration of next, width x height times from (0,0).
ZigStep ==
    /\ pc = "zigzag"
    /\ Len(zvisited) < zw * zh
    /\ zvisited' = Append(zvisited, zpos)
    /\ zpos' = zigzag_next(zpos, zw, zh)
    /\ UNCHANGED <<zw, zh, cycle_map>>
    /\ UNCHANGED gvars

ZigNext == ZigStep

ZigSpec == ZigInit /\ [][ZigNext]_vars

\* --- CycleNavigator (specification, section 4.2) -----------------------------

\* build that applies the row rule to the last row's terminal cell too, with no
\* closing edge back to (0,0).
cycle_build_no_closure(width, height) ==
    [c \in (0..(width - 1)) \X (0..(height - 1)) |->
        LET x == c[1]
            y == c[2]
            row_end == IF y % 2 = 0 THEN x = width - 1 ELSE x = 0
        IN  IF row_end THEN <<x, y + 1>>
            ELSE IF y % 2 = 0 THEN <<x + 1, y>> ELSE <<x - 1, y>>]

\* build(width, height): the successor map.  Interior steps follow the row
\* parity rule of section 4.1; the last row's terminal cell (the right end when
\* the height is odd, the left end when it is even) is redirected to (0,0).
cycle_build(width, height) ==
    [c \in (0..(width - 1)) \X (0..(height - 1)) |->
        LET x == c[1]
            y == c[2]
            row_end == IF y % 2 = 0 THEN x = width - 1 ELSE x = 0
        IN  IF row_end
            THEN IF y = height - 1 THEN <<0, 0>> ELSE <<x, y + 1>>
            ELSE IF y % 2 = 0 THEN <<x + 1, y>> ELSE <<x - 1, y>>]

\* next(head, cycleMap): the lookup
cycle_next(head, cycleMap) == cycleMap[head]

\* The supported grids: width >= 2 (section 4.2), height >= 1.
CycleInit ==
    /\ zw \in 2..MaxDim
    /\ zh \in 1..MaxDim
    /\ zpos = <<0, 0>>
    /\ zvisited = <<>>
    /\ cycle_map = <<>>
    /\ body = InitBody
    /\ direction = RIGHT
    /\ length = 1
    /\ food = <<0, 0>>
    /\ score = 0
    /\ next_direction = RIGHT
    /\ pc = "cycle_build"
    /\ placed = "none"
    /\ last = Snapshot(FALSE)
    /\ probe = NoProbe

\* build runs once, before the first lookup.
CycleBuild ==
    /\ pc = "cycle_build"
    /\ cycle_map' = cycle_build(zw, zh)
    /\ pc' = "cycle"
    /\ UNCHANGED <<zw, zh, zpos, zvisited>>
    /\ UNCHANGED <<body, direction, length, food, score, next_direction, placed, last, probe>>

\* One lookup; a head that is not in the map is a precondition violation.
CycleStep ==
    /\ pc = "cycle"
    /\ Len(zvisited) < zw * zh
    /\ zpos \in DOMAIN cycle_map
    /\ zvisited' = Append(zvisited, zpos)
    /\ zpos' = cycle_next(zpos, cycle_map)
    /\ UNCHANGED <<zw, zh, cycle_map>>
    /\ UNCHANGED gvars

CycleNext == CycleBuild \/ CycleStep

CycleSpec == CycleInit /\ [][CycleNext]_vars

\* --- Properties ----------------------------------------------------------------

\* The safety predicate of the specification (section 4.3), stated on its own:
\* a cell is free iff it lies on the grid and no cell of the body equals it.
CellFree(c, b) ==
    /\ c[1] \in 0..(GRID_WIDTH - 1)
    /\ c[2] \in 0..(GRID_HEIGHT - 1)
    /\ \A i \in 1..Len(b) : b[i] # c

\* The directions whose cell next to the head of b is free.
SafeDirs(b) == {d \in {UP, DOWN, LEFT, RIGHT} : CellFree(Step(b[1], d), b)}

\* C1 (greedy safety): whenever at least one of the four cells next to the head
\* is free, the direction get_next_move returns leads to a free cell.
C1_GreedySafety ==
    pc = "decided" =>
        (SafeDirs(body) # {} => CellFree(Step(body[1], next_direction), body))

\* C1 witness: a decision taken with some but not all neighbours free, where
\* neither direction toward the food is free, so the scan over DIRECTIONS answers.
C1_Witness ==
    /\ pc = "decided"
    /\ Len(body) >= 3
    /\ Cardinality(SafeDirs(body)) = 2
    /\ \A i \in 1..Len(preferred_directions(body[1], food)) :
           ~CellFree(Step(body[1], preferred_directions(body[1], food)[i]), body)
    /\ CellFree(Step(body[1], next_direction), body)

\* C2 (the board applies the navigator's decision): after a tick the head is the
\* old head moved by the direction get_next_move returned.
C2_AppliesDecision ==
    last.ticked => body[1] = Step(last.body[1], next_direction)

\* C3 (alive states are collision free): while main runs further ticks the body
\* cells are pairwise distinct and on the grid; a tick that put the head off the
\* grid or onto another body cell ended the game, and no tick follows it.
C3_AliveBodyValid ==
    /\ pc \in {"food_ctor", "main_place", "tick"} =>
           /\ \A i \in 1..Len(body) : body[i] \in Grid
           /\ \A i, j \in 1..Len(body) : i # j => body[i] # body[j]
    /\ (last.ticked /\ (body[1] \notin Grid
                         \/ \E i \in 2..Len(body) : body[i] = body[1])) =>
           pc \in {"hit_wall", "hit_self"}
    /\ pc \in {"hit_wall", "hit_self"} => ~ENABLED Tick

\* C3 witness: a tick of a snake of at least four cells ended on its own body.
C3_Witness ==
    /\ pc = "hit_self"
    /\ Len(body) >= 4
    /\ \E i \in 2..Len(body) : body[i] = body[1]

\* C4 (win condition): 'Game Won' is reported only when the body has
\* width x height cells, that is, covers the grid.
C4_WonBodyFillsGrid ==
    pc = "won" => (Len(body) = GRID_WIDTH * GRID_HEIGHT /\ Range(body) = Grid)

Sign(n) == IF n > 0 THEN 1 ELSE IF n < 0 THEN -1 ELSE 0

Candidates(h, f) ==
    LET dx == f[1] - h[1]
        dy == f[2] - h[2]
        hs == IF dx = 0 THEN <<>> ELSE << <<Sign(dx), 0>> >>
        vs == IF dy = 0 THEN <<>> ELSE << <<0, Sign(dy)>> >>
    IN  IF dx * dx >= dy * dy THEN hs \o vs ELSE vs \o hs

\* C6 (greedy priority): get_next_move returns the first candidate of the
\* ranking whose cell is free; on a tie with both cells free, the horizontal one.
C6_GreedyPriority ==
    pc = "decided" =>
        \A i \in 1..Len(Candidates(body[1], food)) :
            (/\ CellFree(Step(body[1], Candidates(body[1], food)[i]), body)
             /\ \A j \in 1..(i - 1) :
                    ~CellFree(Step(body[1], Candidates(body[1], food)[j]), body))
            => next_direction = Candidates(body[1], food)[i]

\* C6 witness: a tie |dx| = |dy| # 0 with both candidate cells free, answered
\* with the horizontal direction.
C6_Witness ==
    /\ pc = "decided"
    /\ food[1] # body[1][1]
    /\ (food[1] - body[1][1]) * (food[1] - body[1][1])
           = (food[2] - body[1][2]) * (food[2] - body[1][2])
    /\ \A i \in 1..2 : CellFree(Step(body[1], Candidates(body[1], food)[i]), body)
    /\ next_direction[2] = 0

\* C7 (greedy fallback): when exactly one cell next to the head is free,
\* get_next_move returns its direction; so when only the cell in snake.direction
\* is free, it returns snake.direction.
C7_SingleSafeReturned ==
    pc = "decided" =>
        /\ Cardinality(SafeDirs(body)) = 1 => SafeDirs(body) = {next_direction}
        /\ SafeDirs(body) = {direction} => next_direction = direction

\* C7 witness: only the cell in snake.direction is free, the food lies elsewhere
\* and snake.direction is returned.
C7_Witness ==
    /\ pc = "decided"
    /\ SafeDirs(body) = {direction}
    /\ \A i \in 1..Len(Candidates(body[1], food)) :
           Candidates(body[1], food)[i] # direction
    /\ next_direction = direction

\* C8 as stated (no safe move): with no free cell next to the head,
\* get_next_move returns RIGHT and the same tick ends the game on a collision.
C8_NoSafeMoveLoses ==
    (last.ticked /\ SafeDirs(last.body) = {}) =>
        (next_direction = RIGHT /\ pc \in {"hit_wall", "hit_self"})

\* C8 as amended: with no free cell next to the head, get_next_move returns
\* RIGHT; the same tick ends the game on a collision, unless the snake moved
\* onto its tail cell with no growth pending: the tail vacates that cell and the
\* game goes on.
C8_NoSafeMoveLosesUnlessTail ==
    (last.ticked /\ SafeDirs(last.body) = {}) =>
        /\ next_direction = RIGHT
        /\ \/ pc \in {"hit_wall", "hit_self"}
           \/ /\ pc = "tick"
              /\ body[1] = last.body[Len(last.body)]
              /\ last.length = Len(last.body)

\* C8 witness: no free cell next to the head, snake.direction is not RIGHT,
\* RIGHT is returned, the snake moves onto its vacating tail cell and lives.
C8_Witness ==
    /\ last.ticked
    /\ SafeDirs(last.body) = {}
    /\ last.direction # RIGHT
    /\ next_direction = RIGHT
    /\ pc = "tick"
    /\ body[1] = last.body[Len(last.body)]

\* C9 (length monotonicity): len(body) <= length <= len(body) + 1 in every
\* state; over a tick neither length nor len(body) decreases; the body gains
\* exactly one cell on a move made with growth pending and none otherwise.
C9_LengthMonotone ==
    /\ Len(body) <= length
    /\ length <= Len(body) + 1
    /\ last.ticked =>
           /\ length >= last.length
           /\ Len(body) >= Len(last.body)
           /\ last.length > Len(last.body) => Len(body) = Len(last.body) + 1
           /\ last.length = Len(last.body) => Len(body) = Len(last.body)

\* C9 witness: the first move after a grow(), on which the body gained a cell.
C9_Witness ==
    /\ last.ticked
    /\ last.length = Len(last.body) + 1
    /\ Len(body) = Len(last.body) + 1
    /\ Len(body) >= 3

ZGrid == (0..(zw - 1)) \X (0..(zh - 1))

\* C10 (zigzag coverage): from (0,0), width x height iterations of next visit
\* every cell of the grid exactly once and end back on (0,0).
C10_ZigzagCoverage ==
    (pc = "zigzag" /\ Len(zvisited) = zw * zh) =>
        /\ zpos = <<0, 0>>
        /\ {zvisited[i] : i \in 1..Len(zvisited)} = ZGrid
        /\ \A i, j \in 1..Len(zvisited) : i # j => zvisited[i] # zvisited[j]

\* C10 witness: a full traversal of a grid with an odd number of rows, each
\* longer than one cell.
C10_Witness ==
    /\ pc = "zigzag"
    /\ zw >= 2
    /\ zh = 3
    /\ Len(zvisited) = zw * zh
    /\ zpos = <<0, 0>>

\* C11 (cycle validity): the built map has exactly one entry per grid cell, maps
\* no cell to itself, and following it from (0,0) for width x height steps
\* visits every cell exactly once and ends back on (0,0).
C11_CycleValid ==
    pc = "cycle" =>
        /\ DOMAIN cycle_map = ZGrid
        /\ \A c \in ZGrid : cycle_map[c] \in ZGrid /\ cycle_map[c] # c
        /\ \A i, j \in 1..Len(zvisited) : i # j => zvisited[i] # zvisited[j]
        /\ Len(zvisited) = zw * zh =>
               /\ zpos = <<0, 0>>
               /\ {zvisited[i] : i \in 1..Len(zvisited)} = ZGrid

\* C11 witness: a full traversal of the map of a grid of odd height, the case
\* that needs the corrective closing edge.
C11_Witness ==
    /\ pc = "cycle"
    /\ zw >= 2
    /\ zh = 3
    /\ Len(zvisited) = zw * zh
    /\ zpos = <<0, 0>>
    /\ cycle_map[<<zw - 1, zh - 1>>] = <<0, 0>>

\* C12 (safety predicate): is_safe_move(pos, snake) is true iff pos is on the
\* grid and is no cell of snake.body as it is before the move; so the head cell
\* and the tail cell, also a tail about to vacate, are unsafe.
C12_SafeIffFree ==
    pc = "probed" =>
        /\ probe.safe <=> CellFree(probe.pos, body)
        /\ (probe.pos = body[1] \/ probe.pos = body[Len(body)]) => ~probe.safe

\* C12 witness: the tail cell, next to the head and about to vacate (no growth
\* pending), is asked about and found unsafe.
C12_Witness ==
    /\ pc = "probed"
    /\ Len(body) >= 4
    /\ length = Len(body)
    /\ probe.pos = body[Len(body)]
    /\ \E d \in {UP, DOWN, LEFT, RIGHT} : Step(body[1], d) = probe.pos
    /\ ~probe.safe

\* C13 (turn): turn(p) keeps snake.direction when snake.length > 1 and p is its
\* exact reverse, sets it to p otherwise (any p when length is 1), and leaves
\* snake.body and snake.length as they were.
C13_TurnEffect ==
    pc = "turned" =>
        /\ direction =
               IF last.length > 1
                  /\ next_direction[1] + last.direction[1] = 0
                  /\ next_direction[2] + last.direction[2] = 0
               THEN last.direction
               ELSE next_direction
        /\ last.length = 1 => direction = next_direction
        /\ body = last.body
        /\ length = last.length

\* C13 witness: a reversal refused with length 2 and a body of one cell.
C13_Witness ==
    /\ pc = "turned"
    /\ last.length = 2
    /\ Len(body) = 1
    /\ next_direction = <<-last.direction[1], -last.direction[2]>>
    /\ direction = last.direction
    /\ direction # next_direction

Manhattan(a, b) ==
    (IF a[1] >= b[1] THEN a[1] - b[1] ELSE b[1] - a[1])
    + (IF a[2] >= b[2] THEN a[2] - b[2] ELSE b[2] - a[2])

\* C14 (connected body): while the game is alive consecutive body cells are at
\* Manhattan distance 1; after a move that did not end the game the new head is
\* at distance 1 from the previous head, which is the second body cell when
\* the body has more than one cell.
C14_BodyConnected ==
    /\ pc \in {"food_ctor", "main_place", "tick"} =>
           \A i \in 1..(Len(body) - 1) : Manhattan(body[i], body[i + 1]) = 1
    /\ (last.ticked /\ pc \in {"tick", "won"}) =>
           /\ Manhattan(body[1], last.body[1]) = 1
           /\ Len(body) > 1 => body[2] = last.body[1]

\* C14 witness: a successful move of a snake of at least four cells that turned
\* a corner.
C14_Witness ==
    /\ last.ticked
    /\ pc = "tick"
    /\ Len(body) >= 4
    /\ body[2] = last.body[1]
    /\ body[1][1] # body[3][1]
    /\ body[1][2] # body[3][2]

\* C15 (loss only when trapped): a tick that started with at least one free
\* cell next to the head does not end the game on a wall or self collision.
C15_LossOnlyWhenTrapped ==
    (last.ticked /\ pc \in {"hit_wall", "hit_self"}) => SafeDirs(last.body) = {}

\* C16 (food placement terminates): every call randomize_position(snake.body)
\* of main finds at least one grid cell off the body, so its retry loop never
\* runs without a free cell: neither the initial placement nor a re-placement
\* is made with a body that covers the grid.
C16_PlacementHasFreeCell ==
    /\ pc # "placing"
    /\ placed \in {"main", "eat"} => \E c \in Grid : \A i \in 1..Len(body) : body[i] # c
    /\ pc = "main_place" => \E c \in Grid : \A i \in 1..Len(body) : body[i] # c

\* C16 witness: the re-placement made with a single free cell left, the one the
\* food lands on.
C16_Witness ==
    /\ placed = "eat"
    /\ Len(body) = GRID_WIDTH * GRID_HEIGHT - 1
    /\ Grid \ {body[i] : i \in 1..Len(body)} = {food}

\* C18 (score and length): after every tick score = length - 1; both grow by
\* exactly 1 on the ticks whose head lands on the food and are unchanged on
\* every other tick.
C18_ScoreTracksLength ==
    /\ score = length - 1
    /\ last.ticked =>
           IF body[1] = last.food
           THEN score = last.score + 1 /\ length = last.length + 1
           ELSE score = last.score /\ length = last.length

\* C18 witness: a tick of a snake already grown whose head landed on the food.
C18_Witness ==
    /\ last.ticked
    /\ body[1] = last.food
    /\ last.score >= 2
    /\ score = last.score + 1

\* The last tick put the head on the food.
Ate == last.ticked /\ body[1] = last.food

\* C17 (progress): from every alive state of the loop the game eventually has
\* the head reach the food or ends in a loss or a win.
C17_Progress ==
    (pc = "tick") ~> (Ate \/ pc \in {"hit_wall", "hit_self", "won"})

\* C17 witness: an alive state of a snake of at least three cells whose last
\* move did not eat and took the head farther from the food.
C17_Witness ==
    /\ pc = "tick"
    /\ last.ticked
    /\ ~Ate
    /\ Len(body) >= 3
    /\ food = last.food
    /\ Manhattan(body[1], food) > Manhattan(last.body[1], food)

====
